---- MODULE Spec2Model ----
(***************************************************************************)
(* A model of biolib (src/biolib.hpp): the FASTA reader, the Strand / DNA  *)
(* / RNA operations and the two-term recurrence helper.                    *)
(*                                                                         *)
(* Characters are short strings ("A", ">", "LF" for the newline, "xFF" for *)
(* the byte 255); a std::string is a sequence of characters.  Where the    *)
(* code converts a character to or from an int (istream::peek, the store   *)
(* into a char, the comparison with EOF) the model goes through CharCode   *)
(* and ToChar.                                                             *)
(***************************************************************************)
EXTENDS Integers, Sequences, FiniteSets

VARIABLES
    charSigned,   \* build: whether plain char is a signed type
    stream,       \* FASTA: the characters of the std::istream
    pos,          \* FASTA: number of characters already extracted
    eofbit,       \* FASTA: the stream's eofbit
    failbit,      \* FASTA: the stream's failbit
    fasta,        \* FASTA: the object, [id, sequence]
    outcome,      \* FASTA: how the last Read ended
    before,       \* FASTA: [pos, fasta] when the last Read was entered
    calls,        \* FASTA: number of Read calls made on the object
    src,          \* Strand: the literal the first object was constructed from
    obj,          \* Strand: the current object, [kind, chars]
    path,         \* Strand: the operations that made obj out of src
    arg,          \* Strand: [self, other], the operands of the last call
    selfAfter,    \* Strand: the receiver as the last call left it
    ret,          \* Strand: what the last query returned
    fibIn,        \* fibonacci: the arguments of the last call, [n, a, b]
    fibOut        \* fibonacci: what the last call returned

fastaVars == <<stream, pos, eofbit, failbit, fasta, outcome, before, calls>>
strandVars == <<src, obj, path, arg, selfAfter, ret>>
fibVars == <<fibIn, fibOut>>
vars == <<charSigned, fastaVars, strandVars, fibVars>>

\* ------------------------------------------------------------------ bounds

MaxStream == 6
MaxCalls == 3

\* -------------------------------------------------------------- characters

EOF == -1

StreamChars == {">", "LF", "A", "C", "xFF"}

\* The value of a character as an unsigned char (what streambuf::sgetc
\* returns through traits::to_int_type).
CharCode(c) ==
    CASE c = "LF" -> 10
      [] c = ">" -> 62
      [] c = "A" -> 65
      [] c = "C" -> 67
      [] c = "G" -> 71
      [] c = "N" -> 78
      [] c = "T" -> 84
      [] c = "U" -> 85
      [] c = "xFF" -> 255

\* The int-to-char conversion of `c = stream.peek()`: the value modulo 2^8,
\* read as a signed or an unsigned 8-bit number according to the build.
ToChar(v, isSigned) ==
    LET m == v % 256 IN IF isSigned /\ m >= 128 THEN m - 256 ELSE m

SeqsUpTo(S, n) == UNION {[1..k -> S] : k \in 0..n}

\* ------------------------------------------------------------ std::istream

\* A stream value: [data, pos, eofbit, failbit].
Good(st) == ~st.eofbit /\ ~st.failbit

\* istream::peek: [st |-> the stream afterwards, v |-> the int returned].
Peek(st) ==
    IF ~Good(st) THEN [st |-> [st EXCEPT !.failbit = TRUE], v |-> EOF]
    ELSE IF st.pos >= Len(st.data)
         THEN [st |-> [st EXCEPT !.eofbit = TRUE], v |-> EOF]
         ELSE [st |-> st, v |-> CharCode(st.data[st.pos + 1])]

\* istream::get(): extracts one character.
Get(st) ==
    IF ~Good(st) THEN [st EXCEPT !.failbit = TRUE]
    ELSE IF st.pos >= Len(st.data)
         THEN [st EXCEPT !.eofbit = TRUE, !.failbit = TRUE]
         ELSE [st EXCEPT !.pos = @ + 1]

\* The index of the first "LF" at or after index i, or Len + 1.
RECURSIVE FindLF(_, _)
FindLF(data, i) ==
    IF i > Len(data) THEN Len(data) + 1
    ELSE IF data[i] = "LF" THEN i
    ELSE FindLF(data, i + 1)

\* std::getline(stream, str): [st, str].  A stream that is not good fails the
\* sentry: failbit is set and str is left as it was.  Otherwise str is erased
\* and filled up to the delimiter (extracted, not stored) or the end (eofbit);
\* extracting nothing at all sets failbit.
GetLine(st, str) ==
    IF ~Good(st) THEN [st |-> [st EXCEPT !.failbit = TRUE], str |-> str]
    ELSE LET nl == FindLF(st.data, st.pos + 1)
             line == SubSeq(st.data, st.pos + 1, nl - 1)
         IN IF nl <= Len(st.data)
            THEN [st |-> [st EXCEPT !.pos = nl], str |-> line]
            ELSE [st |-> [st EXCEPT !.pos = Len(st.data),
                                    !.eofbit = TRUE,
                                    !.failbit = (st.pos >= Len(st.data))],
                  str |-> line]

\* ------------------------------------------------------------- FASTA::Read

\* The loop of FASTA::Read,
\*   for (char c; (c = stream.peek()) != '>' && c != EOF; sequence += s)
\*       std::getline(stream, s);
\* from stream st, with the sequence and the line buffer s so far.  When the
\* condition holds on a stream that is no longer good, nothing the body does
\* changes the stream or s, so the condition holds for ever: the call does
\* not return (the sequence keeps growing by s until memory runs out).
RECURSIVE ReadLoop(_, _, _, _)
ReadLoop(st, sequence, s, isSigned) ==
    LET pk == Peek(st)
        c == ToChar(pk.v, isSigned)
    IN IF c # CharCode(">") /\ c # EOF
       THEN IF ~Good(pk.st)
            THEN [st |-> pk.st, sequence |-> sequence, outcome |-> "no_return"]
            ELSE LET gl == GetLine(pk.st, s)
                 IN ReadLoop(gl.st, sequence \o gl.str, gl.str, isSigned)
       ELSE [st |-> pk.st, sequence |-> sequence, outcome |-> "ok"]

\* A Read that extracts the first character before it tests it.
ReadConsumesFirst(st, f, isSigned) ==
    LET pk == Peek(st)
        g == Get(pk.st)
    IN IF pk.v # CharCode(">")
       THEN [st |-> g, fasta |-> f, outcome |-> "domain_error"]
       ELSE LET idl == GetLine(g, f.id)
                lp == ReadLoop(idl.st, f.sequence, <<>>, isSigned)
            IN [st |-> lp.st,
                fasta |-> [id |-> idl.str, sequence |-> lp.sequence],
                outcome |-> lp.outcome]

\* FASTA::Read on object f: [st, fasta, outcome].
Read(st, f, isSigned) ==
    LET pk == Peek(st)
    IN IF pk.v # CharCode(">")
       THEN [st |-> pk.st, fasta |-> f, outcome |-> "domain_error"]
       ELSE LET g == Get(pk.st)
                idl == GetLine(g, f.id)
                lp == ReadLoop(idl.st, f.sequence, <<>>, isSigned)
            IN [st |-> lp.st,
                fasta |-> [id |-> idl.str, sequence |-> lp.sequence],
                outcome |-> lp.outcome]

\* explicit FASTA() = default
FreshFASTA == [id |-> <<>>, sequence |-> <<>>]

NoObject == [kind |-> "none", chars |-> <<>>]
NoArg == [self |-> <<>>, other |-> <<>>]
NoRet == [op |-> "none"]
NoFib == [n |-> 0, a |-> 0, b |-> 0]

\* The parts of the state a specification does not use.
FastaIdle ==
    /\ stream = <<>> /\ pos = 0 /\ eofbit = FALSE /\ failbit = FALSE
    /\ fasta = FreshFASTA /\ outcome = "none"
    /\ before = [pos |-> 0, fasta |-> FreshFASTA] /\ calls = 0

StrandIdle ==
    /\ src = <<>> /\ obj = NoObject /\ path = <<>>
    /\ arg = NoArg /\ selfAfter = <<>> /\ ret = NoRet

FibIdle == fibIn = NoFib /\ fibOut = 0

TheStream == [data |-> stream, pos |-> pos, eofbit |-> eofbit, failbit |-> failbit]

InitFasta ==
    /\ charSigned \in BOOLEAN
    /\ stream \in SeqsUpTo(StreamChars, MaxStream)
    /\ pos = 0
    /\ eofbit = FALSE
    /\ failbit = FALSE
    /\ fasta = FreshFASTA
    /\ outcome = "none"
    /\ before = [pos |-> 0, fasta |-> FreshFASTA]
    /\ calls = 0
    /\ StrandIdle
    /\ FibIdle

\* A build with signed char (x86) reading text that holds no byte 255.
InitFastaPlain ==
    /\ InitFasta
    /\ charSigned
    /\ \A i \in DOMAIN stream : stream[i] # "xFF"

\* operator>>(istream&, bio::FASTA&): one call of Read on the same object.  A
\* call that does not return leaves the caller with nothing to do.
ReadCall ==
    /\ outcome # "no_return"
    /\ calls < MaxCalls
    /\ LET r == Read(TheStream, fasta, charSigned)
       IN /\ pos' = r.st.pos
          /\ eofbit' = r.st.eofbit
          /\ failbit' = r.st.failbit
          /\ fasta' = r.fasta
          /\ outcome' = r.outcome
    /\ before' = [pos |-> pos, fasta |-> fasta]
    /\ calls' = calls + 1
    /\ UNCHANGED <<stream, charSigned, strandVars, fibVars>>

NextFasta == ReadCall

SpecFasta == InitFasta /\ [][NextFasta]_vars

SpecFastaPlain == InitFastaPlain /\ [][NextFasta]_vars

\* ----------------------------------------------- FASTA: what a record is

Min(S) == CHOOSE x \in S : \A y \in S : x <= y

\* A record starts at index b of data (data[b] = ">").  Its first line ends
\* at the first newline after b; its sequence lines end before the first
\* later line that begins with ">", or at the end of the data.
RecFirstLF(data, b) ==
    Min({i \in b..Len(data) : data[i] = "LF"} \cup {Len(data) + 1})

RecEnd(data, b) ==
    Min({p \in (RecFirstLF(data, b) + 1)..Len(data) :
            data[p] = ">" /\ data[p - 1] = "LF"} \cup {Len(data) + 1})

RecId(data, b) == SubSeq(data, b + 1, RecFirstLF(data, b) - 1)

RecSequence(data, b) ==
    SelectSeq(SubSeq(data, RecFirstLF(data, b) + 1, RecEnd(data, b) - 1),
              LAMBDA c : c # "LF")

\* The first character available when the last Read was entered is ">".
EnteredAtMarker ==
    before.pos < Len(stream) /\ stream[before.pos + 1] = ">"

\* C1: on a fresh FASTA object and a stream that starts with ">", Read
\* leaves Id() = the rest of the first line, Sequence() = the following lines
\* concatenated without newlines up to the next line that begins with ">" or
\* the end of the stream, and the stream positioned exactly there.
C1_ReadParsesFirstRecord ==
    (calls = 1 /\ EnteredAtMarker) =>
        /\ outcome = "ok"
        /\ fasta.id = RecId(stream, 1)
        /\ fasta.sequence = RecSequence(stream, 1)
        /\ pos = RecEnd(stream, 1) - 1

\* C1 holds of the streams in which end-of-file can be told from data: a
\* build with signed char and no byte 255 in the stream.
ReadParsesFirstRecordPlain ==
    (charSigned /\ \A i \in DOMAIN stream : stream[i] # "xFF") =>
        C1_ReadParsesFirstRecord

\* C2: when the first available character is not ">" (or there is none),
\* Read fails with the format error, Id() and Sequence() are what they were
\* before the call and no character has been consumed.
C2_FormatErrorLeavesNothing ==
    (calls >= 1 /\ ~EnteredAtMarker) =>
        /\ outcome = "domain_error"
        /\ fasta = before.fasta
        /\ pos = before.pos

\* C2's case after a successful call: the object holds a record, the next
\* call finds no ">" and fails.
C2_Witness ==
    /\ calls = 2
    /\ ~EnteredAtMarker
    /\ outcome = "domain_error"
    /\ before.fasta.sequence # <<>>
    /\ before.fasta.id # <<>>
    /\ before.pos > 0

\* C10: re-invoking Read on the same object at the next ">" leaves, after
\* the k-th call, the identifier and the sequence lines of the k-th record
\* only, nothing of the records read by earlier calls.
C10_OneRecordPerCall ==
    (calls >= 2 /\ outcome = "ok") =>
        /\ fasta.id = RecId(stream, before.pos + 1)
        /\ fasta.sequence = RecSequence(stream, before.pos + 1)

\* ================================================================ Strand

MaxLen == 3
MaxOther == 2
MaxPath == 2

\* A Strand, DNA or RNA is a std::string; its member self is bound to *this by
\* the default member initializer, so the member functions that walk self
\* walk the object's own characters.
\*
\* Characters a strand may hold: nothing checks them at construction.  "N"
\* stands for any character outside both alphabets.
StrandChars == {"A", "C", "G", "T", "U", "N"}

\* What a read outside a string's characters, or the value of a function that
\* flows off its end, may turn out to be.
JunkChars == {"NUL", "N"}

RECURSIVE FirstIndexOf(_, _, _)
FirstIndexOf(str, value, i) ==
    IF i > Len(str) THEN Len(str) + 1
    ELSE IF str[i] = value THEN i
    ELSE FirstIndexOf(str, value, i + 1)

\* std::replace(begin, end, old, new).
Replace(str, old, new) ==
    [i \in 1..Len(str) |-> IF str[i] = old THEN new ELSE str[i]]

\* A conversion that replaces the first 'T' only.
RNAFromDNAFirstOnly(other) ==
    LET k == FirstIndexOf(other, "T", 1)
    IN [i \in 1..Len(other) |-> IF i = k THEN "U" ELSE other[i]]

\* RNA::RNA(DNA const &other): a copy of other with every 'T' made 'U'.
RNAFromDNA(other) == Replace(other, "T", "U")

\* DNA::DNA(RNA const &other): a copy of other with every 'U' made 'T'.
DNAFromRNA(other) == Replace(other, "U", "T")

\* complement(c): the switch has no default, so for any other character the
\* function flows off its end and the value returned is whatever the build
\* leaves there.
complementOutcomes(c) ==
    CASE c = "A" -> {"T"}
      [] c = "C" -> {"G"}
      [] c = "G" -> {"C"}
      [] c = "T" -> {"A"}
      [] OTHER -> JunkChars

\* std::transform(first, last, std::back_inserter(out), complement) with the
\* source walked from index k by step (1 forwards, -1 backwards) for n more
\* characters: all the strings it may leave in out.
RECURSIVE TransformComplement(_, _, _, _, _)
TransformComplement(self, k, step, n, out) ==
    IF n = 0 THEN {out}
    ELSE UNION {TransformComplement(self, k + step, step, n - 1, Append(out, c)) :
                  c \in complementOutcomes(self[k])}

\* A Complement that walks begin(self)..end(self): no reversal.
ComplementNoReverse(self) ==
    TransformComplement(self, 1, 1, Len(self), <<>>)

\* DNA::Complement: the transform over rbegin(self)..rend(self) into a new,
\* empty DNA; the receiver is only read.  All the results the call may give.
Complement(self) ==
    TransformComplement(self, Len(self), -1, Len(self), <<>>)

\* A Count whose fourth case is 'T' instead of default.
RECURSIVE CountFromTOnly(_, _, _)
CountFromTOnly(self, i, N) ==
    IF i > Len(self) THEN N
    ELSE CountFromTOnly(self, i + 1,
            CASE self[i] = "A" -> [N EXCEPT ![1] = @ + 1]
              [] self[i] = "C" -> [N EXCEPT ![2] = @ + 1]
              [] self[i] = "G" -> [N EXCEPT ![3] = @ + 1]
              [] self[i] = "T" -> [N EXCEPT ![4] = @ + 1]
              [] OTHER -> N)

\* Strand::Count: the switch run over the characters, N[0..3] as a tuple.
RECURSIVE CountFrom(_, _, _)
CountFrom(self, i, N) ==
    IF i > Len(self) THEN N
    ELSE CountFrom(self, i + 1,
            CASE self[i] = "A" -> [N EXCEPT ![1] = @ + 1]
              [] self[i] = "C" -> [N EXCEPT ![2] = @ + 1]
              [] self[i] = "G" -> [N EXCEPT ![3] = @ + 1]
              [] OTHER -> [N EXCEPT ![4] = @ + 1])

CountTOnly(self) == CountFromTOnly(self, 1, <<0, 0, 0, 0>>)

Count(self) == CountFrom(self, 1, <<0, 0, 0, 0>>)

\* Strand::ContentGC: std::count_if with is_gc, then float(count) / length().
is_gc(c) == c = "G" \/ c = "C"

RECURSIVE CountIfGC(_, _)
CountIfGC(self, i) ==
    IF i > Len(self) THEN 0
    ELSE (IF is_gc(self[i]) THEN 1 ELSE 0) + CountIfGC(self, i + 1)

RECURSIVE GCD(_, _)
GCD(x, y) == IF y = 0 THEN x ELSE GCD(y, x % y)

\* A float quotient of two small counts, kept exact as a fraction in lowest
\* terms; 0 / 0 is the IEEE quiet NaN, a value like any other: nothing is
\* thrown.
FloatDiv(num, den) ==
    IF den = 0
    THEN [kind |-> IF num = 0 THEN "NaN" ELSE "inf"]
    ELSE [kind |-> "float", num |-> num \div GCD(num, den),
          den |-> den \div GCD(num, den)]

ContentGC(self) == FloatDiv(CountIfGC(self, 1), Len(self))

\* Strand::Distance.  k walks self, i walks other; *i is read before i is
\* compared with end(other), and the comparison is made only after ++i, so
\* with an empty other i starts at end(other), is dereferenced there and never
\* equals end(other) again.  junk[d] is what a read d - 1 places past the last
\* character of other finds.  [val, oob]: the result, and whether such a read
\* was made.
RECURSIVE DistanceLoop(_, _, _, _, _, _, _)
DistanceLoop(self, other, junk, k, i, res, oob) ==
    IF k > Len(self) THEN [val |-> res, oob |-> oob]
    ELSE LET past == i > Len(other)
             at == IF past THEN junk[i - Len(other)] ELSE other[i]
             res1 == res + (IF self[k] # at THEN 1 ELSE 0)
         IN IF i + 1 = Len(other) + 1
            THEN [val |-> res1, oob |-> oob \/ past]
            ELSE DistanceLoop(self, other, junk, k + 1, i + 1, res1, oob \/ past)

Distance(self, other, junk) == DistanceLoop(self, other, junk, 1, 1, 0, FALSE)

\* ---------------------------------------------------- Strand: the queries

\* using std::string::string: a strand made from a literal.
InitQuery ==
    /\ charSigned = TRUE
    /\ FastaIdle
    /\ FibIdle
    /\ src \in SeqsUpTo(StrandChars, MaxLen)
    /\ obj = [kind |-> "Strand", chars |-> src]
    /\ path = <<>>
    /\ arg = NoArg
    /\ selfAfter = src
    /\ ret = NoRet

\* The queries are const and read nothing but the operands, so one query on
\* each constructed strand covers them all.
QueryFrame == UNCHANGED <<charSigned, fastaVars, fibVars, src, obj, path>>

\* The reads Distance makes past the characters of other: only an empty other
\* lets the loop get there, once for every character of self.
JunkReads(self, other) ==
    IF other = <<>> THEN [1..Len(self) -> JunkChars] ELSE {<<>>}

CountCall ==
    /\ ret = NoRet
    /\ arg' = [self |-> obj.chars, other |-> <<>>]
    /\ selfAfter' = obj.chars
    /\ ret' = [op |-> "Count", val |-> Count(obj.chars)]
    /\ QueryFrame

ContentGCCall ==
    /\ ret = NoRet
    /\ arg' = [self |-> obj.chars, other |-> <<>>]
    /\ selfAfter' = obj.chars
    /\ ret' = [op |-> "ContentGC", val |-> ContentGC(obj.chars)]
    /\ QueryFrame

DistanceCall ==
    /\ ret = NoRet
    /\ \E other \in SeqsUpTo(StrandChars, MaxOther) :
         \E junk \in JunkReads(obj.chars, other) :
           /\ arg' = [self |-> obj.chars, other |-> other]
           /\ ret' = [op |-> "Distance",
                       val |-> Distance(obj.chars, other, junk)]
    /\ selfAfter' = obj.chars
    /\ QueryFrame

NextQuery == CountCall \/ ContentGCCall \/ DistanceCall

SpecQuery == InitQuery /\ [][NextQuery]_vars

\* ------------------------------------------- Strand: the queries' claims

NumOf(s, S) == Cardinality({i \in 1..Len(s) : s[i] \in S})

Shorter(s, t) == IF Len(s) <= Len(t) THEN Len(s) ELSE Len(t)

\* C3: s.Distance(t) returns the number of positions below the length of the
\* shorter operand at which s and t differ -- 0 when either is empty -- and
\* reads no position at or past the end of the shorter operand.
C3_DistanceOverShorter ==
    ret.op = "Distance" =>
        /\ ret.val.val =
             Cardinality({i \in 1..Shorter(arg.self, arg.other) :
                            arg.self[i] # arg.other[i]})
        /\ ~ret.val.oob

\* C3 holds where the loop cannot pass the end of other: other is not empty,
\* or self is.
DistanceWithinOther ==
    (arg.other # <<>> \/ arg.self = <<>>) => C3_DistanceOverShorter

\* C8: ContentGC returns (number of 'G' + number of 'C') / length for a
\* non-empty sequence, and fails with an error for the empty one.
C8_ContentGCOrError ==
    ret.op = "ContentGC" =>
        IF arg.self = <<>>
        THEN ret.val.kind = "error"
        ELSE /\ ret.val.kind = "float"
             /\ ret.val.num * Len(arg.self)
                  = (NumOf(arg.self, {"G"}) + NumOf(arg.self, {"C"})) * ret.val.den

\* C8's first half alone: the value for a non-empty sequence.
ContentGCNonEmpty ==
    (ret.op = "ContentGC" /\ arg.self # <<>>) => C8_ContentGCOrError

\* C9: Count returns (number of 'A', of 'C', of 'G', of every other
\* character), so the four sum to the length, and 'T', 'U' and invalid
\* characters all land in the fourth.
C9_CountTallies ==
    ret.op = "Count" =>
        /\ ret.val = << NumOf(arg.self, {"A"}), NumOf(arg.self, {"C"}),
                        NumOf(arg.self, {"G"}),
                        Cardinality({i \in 1..Len(arg.self) :
                                       arg.self[i] \notin {"A", "C", "G"}}) >>
        /\ ret.val[1] + ret.val[2] + ret.val[3] + ret.val[4] = Len(arg.self)

\* C9's case: a strand holding 'T', 'U' and an invalid character.
C9_Witness ==
    /\ ret.op = "Count"
    /\ {"T", "U", "N"} \subseteq {arg.self[i] : i \in 1..Len(arg.self)}
    /\ ret.val[4] = 3

\* ------------------------------------------- DNA / RNA: the conversions

\* path[k] is [op, val]: the k-th operation applied and the characters of the
\* object it made; ValAt(0) is the literal.
ValAt(k) == IF k = 0 THEN src ELSE path[k].val

\* using Strand::Strand: a DNA or an RNA made from a literal.
InitDNA ==
    /\ charSigned = TRUE
    /\ FastaIdle
    /\ FibIdle
    /\ src \in SeqsUpTo(StrandChars, MaxLen)
    /\ \E kind \in {"DNA", "RNA"} : obj = [kind |-> kind, chars |-> src]
    /\ path = <<>>
    /\ arg = NoArg
    /\ selfAfter = src
    /\ ret = NoRet

DNAFrame ==
    /\ arg' = [self |-> obj.chars, other |-> <<>>]
    /\ selfAfter' = obj.chars
    /\ UNCHANGED <<charSigned, fastaVars, fibVars, src, ret>>

\* RNA rna = dna;
ToRNA ==
    /\ Len(path) < MaxPath
    /\ obj.kind = "DNA"
    /\ obj' = [kind |-> "RNA", chars |-> RNAFromDNA(obj.chars)]
    /\ path' = Append(path, [op |-> "RNA", val |-> obj'.chars])
    /\ DNAFrame

\* DNA dna(rna);
ToDNA ==
    /\ Len(path) < MaxPath
    /\ obj.kind = "RNA"
    /\ obj' = [kind |-> "DNA", chars |-> DNAFromRNA(obj.chars)]
    /\ path' = Append(path, [op |-> "DNA", val |-> obj'.chars])
    /\ DNAFrame

\* dna.Complement(), the result becoming the object of the next operation.
ComplementCall ==
    /\ Len(path) < MaxPath
    /\ obj.kind = "DNA"
    /\ \E r \in Complement(obj.chars) :
         /\ obj' = [kind |-> "DNA", chars |-> r]
         /\ path' = Append(path, [op |-> "Complement", val |-> r])
    /\ DNAFrame

NextDNA == ToRNA \/ ToDNA \/ ComplementCall

SpecDNA == InitDNA /\ [][NextDNA]_vars

\* ----------------------------------------- DNA / RNA: the claims

OverACGT(s) == \A i \in 1..Len(s) : s[i] \in {"A", "C", "G", "T"}

pair(c) ==
    CASE c = "A" -> "T" [] c = "T" -> "A" [] c = "C" -> "G" [] c = "G" -> "C"

LastOp == IF path = <<>> THEN "none" ELSE path[Len(path)].op

LastTwoOps ==
    IF Len(path) < 2 THEN <<>>
    ELSE <<path[Len(path) - 1].op, path[Len(path)].op>>

\* C4: for s over {A,C,G,T} of length n, Complement returns r of length n with
\* r[i] = pair(s[n-1-i]) (indices from 0), and leaves s unchanged.
C4_ReverseComplement ==
    (LastOp = "Complement" /\ OverACGT(arg.self)) =>
        /\ Len(obj.chars) = Len(arg.self)
        /\ \A i \in 0..(Len(arg.self) - 1) :
             obj.chars[i + 1] = pair(arg.self[(Len(arg.self) - 1 - i) + 1])
        /\ selfAfter = arg.self

\* C4's case: a strand that is not its own mirror image, every base mapped.
C4_Witness ==
    /\ LastOp = "Complement"
    /\ arg.self = <<"A", "C", "T">>
    /\ obj.chars = <<"A", "G", "T">>

\* C5: for all DNA sequences s, Complement(Complement(s)) = s.
C5_ComplementInvolution ==
    LastTwoOps = <<"Complement", "Complement">> =>
        obj.chars = ValAt(Len(path) - 2)

\* C5 holds of the sequences over {A,C,G,T}.
ComplementInvolutionOverACGT ==
    (Len(path) >= 2 /\ OverACGT(ValAt(Len(path) - 2))) => C5_ComplementInvolution

\* C6: for valid DNA s, DNA(RNA(s)) = s; RNA(DNA) makes every 'T' a 'U',
\* DNA(RNA) every 'U' a 'T', each keeping the length and every other character.
Substitutes(from, to, old, new) ==
    /\ Len(to) = Len(from)
    /\ \A i \in 1..Len(from) :
         to[i] = IF from[i] = old THEN new ELSE from[i]

C6_TranscriptionRoundTrip ==
    /\ (LastTwoOps = <<"RNA", "DNA">> /\ OverACGT(ValAt(Len(path) - 2))) =>
           obj.chars = ValAt(Len(path) - 2)
    /\ LastOp = "RNA" => Substitutes(arg.self, obj.chars, "T", "U")
    /\ LastOp = "DNA" => Substitutes(arg.self, obj.chars, "U", "T")

\* C6's case: a valid DNA with several 'T' taken to RNA and back.
C6_Witness ==
    /\ LastTwoOps = <<"RNA", "DNA">>
    /\ ValAt(Len(path) - 2) = <<"T", "G", "T">>
    /\ path[Len(path) - 1].val = <<"U", "G", "U">>
    /\ obj.chars = <<"T", "G", "T">>

\* ============================================================= fibonacci

MaxN == 30
MaxK == 3

\* The width of long: at least 32 bits, and 32 on the ILP32 and LLP64 targets,
\* which is the width taken here.
LongBits == 32

LongMax == (2 ^ (LongBits - 2) - 1) + 2 ^ (LongBits - 2)

\* What a signed overflow in long arithmetic (undefined) may leave.
OverflowOutcomes == {-LongMax - 1, 0, LongMax}

\* a * x + b * y in long arithmetic for a, b >= 1 and x, y >= 0: [fits, v],
\* fits being whether both products and the sum are representable.
LongMulAdd(a, x, b, y) ==
    IF x > LongMax \div a \/ y > LongMax \div b THEN [fits |-> FALSE, v |-> 0]
    ELSE IF a * x > LongMax - b * y THEN [fits |-> FALSE, v |-> 0]
    ELSE [fits |-> TRUE, v |-> a * x + b * y]

\* The loop of fibonacci from step i on:
\*   for (auto i : py::range(3, n + 1))
\*       { auto j = bool(i & 1); sum[j] = a * sum[j] + b * sum[!j]; }
\* sum is indexed 0..1; [fits, sum]: the final sum unless a step overflowed.
RECURSIVE FibLoop(_, _, _, _, _)
FibLoop(i, last, a, b, sum) ==
    IF i > last THEN [fits |-> TRUE, sum |-> sum]
    ELSE LET j == i % 2
             r == LongMulAdd(a, sum[j], b, sum[1 - j])
         IN IF ~r.fits THEN [fits |-> FALSE, sum |-> sum]
            ELSE FibLoop(i + 1, last, a, b, [sum EXCEPT ![j] = r.v])

\* A fibonacci whose loop is range(3, n): one step short.
fibonacciStopsEarly(n, a, b) ==
    LET l == FibLoop(3, n - 1, a, b, [j \in 0..1 |-> 1])
    IN IF l.fits THEN {l.sum[n % 2]} ELSE OverflowOutcomes

\* fibonacci(n, a, b): all the values the call may return.
fibonacci(n, a, b) ==
    LET l == FibLoop(3, n, a, b, [j \in 0..1 |-> 1])
    IN IF l.fits THEN {l.sum[n % 2]} ELSE OverflowOutcomes

InitFib ==
    /\ charSigned = TRUE
    /\ FastaIdle
    /\ StrandIdle
    /\ FibIdle

\* A call fibonacci(n, a, b); the driver's is fibonacci(n, k), that is a = k
\* and b = 1.  The function is pure, so one call in a run covers it.
FibCall ==
    /\ fibIn = NoFib
    /\ \E n \in 1..MaxN, a \in 1..MaxK, b \in 1..MaxK :
         /\ fibIn' = [n |-> n, a |-> a, b |-> b]
         /\ fibOut' \in fibonacci(n, a, b)
    /\ UNCHANGED <<charSigned, fastaVars, strandVars>>

NextFib == FibCall

SpecFib == InitFib /\ [][NextFib]_vars

\* The rabbit recurrence F(1) = F(2) = 1, F(i) = F(i-1) + k * F(i-2), as
\* [fits, v]: fits is whether every term up to the n-th is at most LongMax.
\* RabbitFrom carries cur = F(i) and prev = F(i-1).
RECURSIVE RabbitFrom(_, _, _, _, _)
RabbitFrom(i, n, k, prev, cur) ==
    IF i >= n THEN [fits |-> TRUE, v |-> cur]
    ELSE IF prev > (LongMax - cur) \div k THEN [fits |-> FALSE, v |-> 0]
    ELSE RabbitFrom(i + 1, n, k, cur, cur + k * prev)

Rabbit(n, k) == RabbitFrom(2, n, k, 1, 1)

\* C7: for every n >= 1 and k >= 1, fibonacci with a = 1, b = k returns the
\* n-th term of the rabbit recurrence; n = 5, k = 3 returns 19.
C7_RabbitWithBAsMultiplier ==
    (fibIn.n >= 1 /\ fibIn.a = 1) =>
        /\ Rabbit(fibIn.n, fibIn.b).fits
        /\ fibOut = Rabbit(fibIn.n, fibIn.b).v
        /\ (fibIn.n = 5 /\ fibIn.b = 3) => fibOut = 19

\* C7 amended: with a = k and b = 1, as the driver calls it, fibonacci returns
\* the n-th term of the rabbit recurrence whenever the terms up to it fit in a
\* long; n = 5, k = 3 returns 19.
C7_RabbitWithAAsMultiplier ==
    (fibIn.n >= 1 /\ fibIn.b = 1 /\ Rabbit(fibIn.n, fibIn.a).fits) =>
        /\ fibOut = Rabbit(fibIn.n, fibIn.a).v
        /\ (fibIn.n = 5 /\ fibIn.a = 3) => fibOut = 19

C7_Witness == fibIn = [n |-> 5, a |-> 3, b |-> 1] /\ fibOut = 19

\* The amended claim leaves out only calls that do overflow.
C7_OverflowReached ==
    \E n \in 1..MaxN : ~Rabbit(n, MaxK).fits

====
